---- MODULE Spec2Model ----
(***************************************************************************)
(* Model of the customer-service chatbot's triage / escalation engine      *)
(* (customer-service-bot/src/triage.py).                                   *)
(*                                                                         *)
(* Similarity scores are Python floats; they are modelled as integers in   *)
(* millionths (0.65 is 650000).  Strings the code builds or compares as    *)
(* text are modelled as sequences: a query is a sequence of characters     *)
(* (lower() and the substring test work on characters), a reason is a      *)
(* sequence of words.  None is the string "None".                          *)
(***************************************************************************)
EXTENDS Integers, Sequences, FiniteSets, TLC

\* ------------------------------------------------------------------ bounds

\* Number of should_escalate invocations (call slots) on the one engine.
NumCalls == 2

Calls == 1..NumCalls

\* ------------------------------------------------------------ sample inputs

\* "I want to talk to agent please"
Q_TalkToAgent ==
    <<"I"," ","w","a","n","t"," ","t","o"," ","t","a","l","k"," ","t","o",
      " ","a","g","e","n","t"," ","p","l","e","a","s","e">>
\* "SPEAK TO HUMAN"
Q_SpeakToHumanUpper ==
    <<"S","P","E","A","K"," ","T","O"," ","H","U","M","A","N">>
\* "Is this a Real Person?"
Q_RealPerson ==
    <<"I","s"," ","t","h","i","s"," ","a"," ","R","e","a","l"," ","P","e",
      "r","s","o","n","?">>
\* "human agent"
Q_HumanAgent ==
    <<"h","u","m","a","n"," ","a","g","e","n","t">>
\* "where is my order"
Q_Order ==
    <<"w","h","e","r","e"," ","i","s"," ","m","y"," ","o","r","d","e","r">>
\* "talk to an agent"
Q_NearMiss ==
    <<"t","a","l","k"," ","t","o"," ","a","n"," ","a","g","e","n","t">>
\* "I am not human"
Q_NotHuman ==
    <<"I"," ","a","m"," ","n","o","t"," ","h","u","m","a","n">>
\* ""
Q_Empty ==
    << >>

\* The query texts a caller passes to should_escalate.
Queries ==
    { Q_TalkToAgent, Q_SpeakToHumanUpper, Q_RealPerson, Q_HumanAgent,
      Q_Order, Q_NearMiss, Q_NotHuman, Q_Empty }

\* The top_similarity values a caller passes, in millionths: both sides of
\* each threshold, the examples of the specification (0.1, 0.5, 0.8, 0.9)
\* and values outside [0,1].
Similarities ==
    { -50000, 0, 100000, 449999, 450000, 500000, 649999, 650000, 800000,
      900000, 1000000, 1500000 }

\* The values of the two keys of a probe answer; "None" is a key that is
\* absent (dict.get then returns None) or null.
UrgencyValues == {"high", "medium", "low", "None"}

SentimentValues == {"positive", "neutral", "negative", "None"}

\* What the outbound call openai.chat.completions.create does for a query:
\*   raises  - the call raises (network error, API error)
\*   hangs   - the call never answers (the source sets no timeout)
\*   invalid - it answers with text json.loads rejects
\*   array   - it answers with valid JSON that is not an object
\*   object  - it answers with a JSON object holding urgency and sentiment
ProbeReplies ==
    [kind : {"raises", "hangs", "invalid", "array"},
     urgency : {"None"}, sentiment : {"None"}]
    \cup [kind : {"object"}, urgency : UrgencyValues,
          sentiment : SentimentValues]

\* The values of the optional argument previous_escalations: not given
\* (None), an empty list, a list holding one earlier decision.
PreviousEscalations ==
    { [given |-> FALSE, list |-> << >>],
      [given |-> TRUE, list |-> << >>],
      [given |-> TRUE,
       list |-> << [escalate |-> TRUE,
                    reason |-> <<"Low", "confidence", "in", "automated",
                                 "response">>,
                    confidence |-> "low"] >>] }

\* -------------------------------------------------------------------- state

VARIABLES
    confidence_thresholds,  \* TriageEngine.confidence_thresholds
    pc,                     \* per call: where the call stands
    query,                  \* per call: argument query
    top_similarity,         \* per call: argument top_similarity
    previous_escalations,   \* per call: argument previous_escalations
    probe_reply,            \* per call: what the sentiment service does
    confidence,             \* per call: local confidence
    explicit_request,       \* per call: local explicit_request
    sentiment,              \* per call: local sentiment
    result,                 \* per call: how the call ended
    check_sentiment_calls,  \* per call: number of check_sentiment calls
    generator_model,        \* ResponseGenerator.model
    context,                \* per call: generate_response argument context
    g_confidence,           \* per call: generate_response local confidence
    g_escalate,             \* per call: generate_response local escalate
    system_prompt,          \* per call: generate_response local system_prompt
    response,               \* per call: the dict generate_response returns
    handler,                \* per call: process_query or the chat handler
    store_answer,           \* per call: what collection.query does
    retrieval_results,      \* per call: what retrieve_relevant_tickets returns
    retrieval_result,       \* per call: what format_context_for_prompt returns
    ticket_idx,             \* per call: position of the chat handler's loop
    relevant_tickets,       \* st.session_state.relevant_tickets
    call_log,               \* per call: the collaborator calls made so far
    final_response,         \* per call: the response with ids and score
    add_pc,                 \* where add_tickets stands
    tickets,                \* add_tickets: number of rows of tickets_df
    ticket_row,             \* add_tickets: rows prepared so far
    documents,              \* add_tickets: local documents (by row)
    batch_start,            \* add_tickets: loop variable i
    single_idx,             \* add_tickets: loop variable j
    collection,             \* the documents the collection accepted
    batch_adds,             \* per row: batch collection.add calls with it
    single_adds,            \* per row: individual collection.add calls
    added,                  \* what add_tickets returned
    clock,                  \* int(time.time())
    pending_conversations,  \* st.session_state.pending_conversations
    agent_responses         \* keys of st.session_state.agent_responses

\* The state of the response generator and of its calls.
genVars ==
    << generator_model, context, g_confidence, g_escalate, system_prompt,
       response >>

\* The state of process_query and of the chat handler around the two
\* engines.
interfaceVars ==
    << handler, store_answer, retrieval_results, retrieval_result,
       ticket_idx, relevant_tickets, call_log, final_response >>

\* The state of VectorStore.add_tickets and of the collection.
ingestVars ==
    << add_pc, tickets, ticket_row, documents, batch_start, single_idx,
       collection, batch_adds, single_adds, added >>

\* The state of the agent queue.
queueVars == << clock, pending_conversations, agent_responses >>

otherVars == << interfaceVars, ingestVars, queueVars >>

vars ==
    << confidence_thresholds, pc, query, top_similarity,
       previous_escalations, probe_reply, confidence, explicit_request,
       sentiment, result, check_sentiment_calls, generator_model, context,
       g_confidence, g_escalate, system_prompt, response, handler,
       store_answer, retrieval_results, retrieval_result, ticket_idx,
       relevant_tickets, call_log, final_response, add_pc, tickets,
       ticket_row, documents, batch_start, single_idx, collection,
       batch_adds, single_adds, added, clock, pending_conversations,
       agent_responses >>

\* A local that is not bound yet, a call that has not ended yet.
Unbound == "unbound"

NoReply == [kind |-> "none", urgency |-> "None", sentiment |-> "None"]

NoArgument == [given |-> FALSE, list |-> << >>]

NoSentiment == [type |-> "unbound", urgency |-> "None", sentiment |-> "None"]

NoResult ==
    [outcome |-> "running", escalate |-> FALSE, reason |-> << >>,
     confidence |-> Unbound, exception |-> "None"]

NoPrompt ==
    [variant |-> "unbound", query |-> << >>, reason |-> << >>,
     context |-> "None"]

NoResponse ==
    [response_text |-> "None", confidence |-> Unbound,
     should_escalate |-> FALSE, reason |-> << >>, returned |-> FALSE]

\* TriageEngine.__init__ and ResponseGenerator.__init__ have run; no
\* generate_response call is in progress.
GenInit ==
    /\ generator_model = "gpt-3.5-turbo"
    /\ context = [c \in Calls |-> "None"]
    /\ g_confidence = [c \in Calls |-> Unbound]
    /\ g_escalate = [c \in Calls |-> FALSE]
    /\ system_prompt = [c \in Calls |-> NoPrompt]
    /\ response = [c \in Calls |-> NoResponse]

\* Upper bound on the rows of tickets_df the model feeds to add_tickets.
MaxTickets == 5

Rows == 1..MaxTickets

\* No collection.query answer yet.
NoAnswer ==
    [kind |-> "none", documents |-> << >>, ids |-> << >>,
     distances |-> << >>]

NoRetrievalResults == [results |-> << >>, top_similarity |-> 0,
                       bound |-> FALSE]

NoRetrievalResult ==
    [formatted_context |-> << >>, top_similarity |-> 0,
     ticket_ids |-> << >>, bound |-> FALSE]

NoFinalResponse ==
    [response_text |-> "None", confidence |-> Unbound,
     should_escalate |-> FALSE, reason |-> << >>,
     relevant_ticket_ids |-> << >>, similarity_score |-> 0,
     returned |-> FALSE]

\* ChatInterface.__init__ has run; no query is being processed.
InterfaceInit ==
    /\ handler = [c \in Calls |-> "none"]
    /\ store_answer = [c \in Calls |-> NoAnswer]
    /\ retrieval_results = [c \in Calls |-> NoRetrievalResults]
    /\ retrieval_result = [c \in Calls |-> NoRetrievalResult]
    /\ ticket_idx = [c \in Calls |-> 0]
    /\ relevant_tickets = << >>
    /\ call_log = [c \in Calls |-> << >>]
    /\ final_response = [c \in Calls |-> NoFinalResponse]

\* VectorStore.__init__ has run: the collection is empty and add_tickets
\* is not running.
IngestInit ==
    /\ add_pc = "idle"
    /\ tickets = 0
    /\ ticket_row = 0
    /\ documents = << >>
    /\ batch_start = 0
    /\ single_idx = 0
    /\ collection = {}
    /\ batch_adds = [r \in Rows |-> 0]
    /\ single_adds = [r \in Rows |-> 0]
    /\ added = -1

\* A new streamlit session: nothing queued, nothing answered.
QueueInit ==
    /\ clock = 0
    /\ pending_conversations = << >>
    /\ agent_responses = {}

OtherInit == InterfaceInit /\ IngestInit /\ QueueInit

\* ---------------------------------------------------------- pure functions

\* determine_confidence comparing the medium tier against the wrong key.
determine_confidence_wrong_key(thresholds, similarity) ==
    IF similarity >= thresholds["high"] THEN "high"
    ELSE IF similarity >= thresholds["low"] THEN "medium"
    ELSE "low"

\* determine_confidence with the high boundary exclusive.
determine_confidence_exclusive(thresholds, similarity) ==
    IF similarity > thresholds["high"] THEN "high"
    ELSE IF similarity >= thresholds["medium"] THEN "medium"
    ELSE "low"

\* determine_confidence taking a score outside [0,1] for not similar.
determine_confidence_range_checked(thresholds, similarity) ==
    IF similarity < 0 \/ similarity > 1000000 THEN "low"
    ELSE IF similarity >= thresholds["high"] THEN "high"
    ELSE IF similarity >= thresholds["medium"] THEN "medium"
    ELSE "low"

\* determine_confidence with the labels of the two upper tiers exchanged.
determine_confidence_swapped_labels(thresholds, similarity) ==
    IF similarity >= thresholds["high"] THEN "medium"
    ELSE IF similarity >= thresholds["medium"] THEN "high"
    ELSE "low"

\* TriageEngine.determine_confidence
determine_confidence(thresholds, similarity) ==
    IF similarity >= thresholds["high"] THEN "high"
    ELSE IF similarity >= thresholds["medium"] THEN "medium"
    ELSE "low"

UpperCase ==
    <<"A","B","C","D","E","F","G","H","I","J","K","L","M","N","O","P","Q",
      "R","S","T","U","V","W","X","Y","Z">>

LowerCase ==
    <<"a","b","c","d","e","f","g","h","i","j","k","l","m","n","o","p","q",
      "r","s","t","u","v","w","x","y","z">>

\* str.lower on one character
lower_char(ch) ==
    IF \E i \in 1..Len(UpperCase) : UpperCase[i] = ch
    THEN LowerCase[CHOOSE i \in 1..Len(UpperCase) : UpperCase[i] = ch]
    ELSE ch

\* str.lower
lower(text) ==
    [i \in 1..Len(text) |-> lower_char(text[i])]

\* keyword in text (substring test)
contains(text, keyword) ==
    \E start \in 0..(Len(text) - Len(keyword)) :
        \A i \in 1..Len(keyword) : text[start + i] = keyword[i]

\* human_keywords
human_keywords ==
    { <<"s","p","e","a","k"," ","t","o"," ","h","u","m","a","n">>,
      <<"t","a","l","k"," ","t","o"," ","a","g","e","n","t">>,
      <<"r","e","a","l"," ","p","e","r","s","o","n">>,
      <<"h","u","m","a","n"," ","a","g","e","n","t">> }

\* The keyword scan without query.lower().
scan_keywords_case_sensitive(text) ==
    \E keyword \in human_keywords : contains(text, keyword)

\* any(keyword in query.lower() for keyword in human_keywords)
scan_keywords(text) ==
    \E keyword \in human_keywords : contains(lower(text), keyword)

\* check_sentiment falling back to an alarming signal when parsing fails.
parse_sentiment_fail_closed(reply) ==
    CASE reply.kind = "object" ->
           [type |-> "dict", urgency |-> reply.urgency,
            sentiment |-> reply.sentiment]
      [] reply.kind = "array" ->
           [type |-> "list", urgency |-> "None", sentiment |-> "None"]
      [] OTHER ->
           [type |-> "dict", urgency |-> "high", sentiment |-> "negative"]

\* json.loads(response.choices[0].message.content) inside try/except:
\* the parsed value, or the fallback when parsing raises.
parse_sentiment(reply) ==
    CASE reply.kind = "object" ->
           [type |-> "dict", urgency |-> reply.urgency,
            sentiment |-> reply.sentiment]
      [] reply.kind = "array" ->
           [type |-> "list", urgency |-> "None", sentiment |-> "None"]
      [] OTHER ->
           [type |-> "dict", urgency |-> "low", sentiment |-> "neutral"]

\* The sentiment test with "and" for "or".
sentiment_escalates_and(s) ==
    s.urgency = "high" /\ s.sentiment = "negative"

\* The sentiment test taking medium urgency for high.
sentiment_escalates_medium(s) ==
    s.urgency \in {"high", "medium"} \/ s.sentiment = "negative"

\* sentiment.get("urgency") == "high" or sentiment.get("sentiment") == "negative"
sentiment_escalates(s) ==
    s.urgency = "high" \/ s.sentiment = "negative"

\* The sentiment check applied to every tier but low.
needs_sentiment_not_low(conf) ==
    conf # "low"

\* confidence == "medium": the sentiment check applies
needs_sentiment(conf) ==
    conf = "medium"

\* The default reason built without capitalize().
capitalize_identity(word) ==
    word

\* str.capitalize on a confidence level
capitalize(word) ==
    CASE word = "low" -> "Low"
      [] word = "medium" -> "Medium"
      [] word = "high" -> "High"
      [] OTHER -> word

Returned(escalate, reason, conf) ==
    [outcome |-> "returned", escalate |-> escalate, reason |-> reason,
     confidence |-> conf, exception |-> "None"]

Raised(exception) ==
    [outcome |-> "raised", escalate |-> FALSE, reason |-> << >>,
     confidence |-> Unbound, exception |-> exception]

\* The low-confidence decision that lets the bot answer.
low_confidence_decision_answered(conf) ==
    Returned(FALSE, <<"Low", "confidence", "in", "automated", "response">>,
             conf)

low_confidence_decision(conf) ==
    Returned(TRUE,
             <<"Low", "confidence", "in", "automated", "response">>, conf)

\* The explicit-request decision reporting the request as certain.
explicit_request_decision_high(conf) ==
    Returned(TRUE,
             <<"Customer", "explicitly", "requested", "human",
               "assistance">>, "high")

explicit_request_decision(conf) ==
    Returned(TRUE,
             <<"Customer", "explicitly", "requested", "human",
               "assistance">>, conf)

\* The sentiment reason with its two values exchanged.
sentiment_decision_swapped(s, conf) ==
    Returned(TRUE,
             <<"Customer", "query", "shows", s.urgency, "sentiment",
               "with", s.sentiment, "urgency">>, conf)

sentiment_decision(s, conf) ==
    Returned(TRUE,
             <<"Customer", "query", "shows", s.sentiment, "sentiment",
               "with", s.urgency, "urgency">>, conf)

default_decision(conf) ==
    Returned(FALSE,
             <<capitalize(conf), "confidence", "in", "automated",
               "response">>, conf)

\* --------------------------------------------------------------------- Init

\* TriageEngine.__init__; no call is running.
Init ==
    /\ confidence_thresholds = [high |-> 650000, medium |-> 450000, low |-> 0]
    /\ pc = [c \in Calls |-> "idle"]
    /\ query = [c \in Calls |-> << >>]
    /\ top_similarity = [c \in Calls |-> 0]
    /\ previous_escalations = [c \in Calls |-> NoArgument]
    /\ probe_reply = [c \in Calls |-> NoReply]
    /\ confidence = [c \in Calls |-> Unbound]
    /\ explicit_request = [c \in Calls |-> FALSE]
    /\ sentiment = [c \in Calls |-> NoSentiment]
    /\ result = [c \in Calls |-> NoResult]
    /\ check_sentiment_calls = [c \in Calls |-> 0]
    /\ GenInit
    /\ OtherInit

\* ------------------------------------------------------------------ actions

\* A caller invokes should_escalate(query, top_similarity,
\* previous_escalations); process_query does so for one query at a time.
Invoke(c) ==
    /\ \A d \in Calls : pc[d] = "idle"
    /\ \E q \in Queries, s \in Similarities, p \in PreviousEscalations,
          r \in ProbeReplies :
        /\ query' = [query EXCEPT ![c] = q]
        /\ top_similarity' = [top_similarity EXCEPT ![c] = s]
        /\ previous_escalations' = [previous_escalations EXCEPT ![c] = p]
        /\ probe_reply' = [probe_reply EXCEPT ![c] = r]
    /\ pc' = [pc EXCEPT ![c] = "classify"]
    /\ UNCHANGED << confidence_thresholds, confidence, explicit_request,
                    sentiment, result, check_sentiment_calls >>
    /\ UNCHANGED genVars
    /\ UNCHANGED otherVars

\* Classification that also moves the medium threshold of the engine to
\* just above the score it has seen.
Classify_adaptive(c) ==
    /\ pc[c] = "classify"
    /\ confidence' =
         [confidence EXCEPT
            ![c] = determine_confidence(confidence_thresholds,
                                        top_similarity[c])]
    /\ confidence_thresholds' =
         [confidence_thresholds EXCEPT !["medium"] = top_similarity[c] + 1]
    /\ pc' = [pc EXCEPT ![c] = "scan"]
    /\ UNCHANGED << query, top_similarity, previous_escalations,
                    probe_reply, explicit_request, sentiment, result,
                    check_sentiment_calls >>
    /\ UNCHANGED genVars
    /\ UNCHANGED otherVars

\* Classification that keeps the tier on the engine, where every call in
\* progress reads it, instead of in a local.
Classify_shared(c) ==
    /\ pc[c] = "classify"
    /\ confidence' =
         [d \in Calls |->
            determine_confidence(confidence_thresholds, top_similarity[c])]
    /\ pc' = [pc EXCEPT ![c] = "scan"]
    /\ UNCHANGED << confidence_thresholds, query, top_similarity,
                    previous_escalations, probe_reply, explicit_request,
                    sentiment, result, check_sentiment_calls >>
    /\ UNCHANGED genVars
    /\ UNCHANGED otherVars

\* confidence = self.determine_confidence(top_similarity)
Classify(c) ==
    /\ pc[c] = "classify"
    /\ confidence' =
         [confidence EXCEPT
            ![c] = determine_confidence(confidence_thresholds,
                                        top_similarity[c])]
    /\ pc' = [pc EXCEPT ![c] = "scan"]
    /\ UNCHANGED << confidence_thresholds, query, top_similarity,
                    previous_escalations, probe_reply, explicit_request,
                    sentiment, result, check_sentiment_calls >>
    /\ UNCHANGED genVars
    /\ UNCHANGED otherVars

\* explicit_request = any(keyword in query.lower() for keyword in ...)
ScanKeywords(c) ==
    /\ pc[c] = "scan"
    /\ explicit_request' =
         [explicit_request EXCEPT ![c] = scan_keywords(query[c])]
    /\ pc' = [pc EXCEPT ![c] = "rules"]
    /\ UNCHANGED << confidence_thresholds, query, top_similarity,
                    previous_escalations, probe_reply, confidence,
                    sentiment, result, check_sentiment_calls >>
    /\ UNCHANGED genVars
    /\ UNCHANGED otherVars

\* if confidence == "low": return {...}
ReturnLowConfidence(c) ==
    /\ pc[c] = "rules"
    /\ confidence[c] = "low"
    /\ result' = [result EXCEPT ![c] = low_confidence_decision(confidence[c])]
    /\ pc' = [pc EXCEPT ![c] = "done"]
    /\ UNCHANGED << confidence_thresholds, query, top_similarity,
                    previous_escalations, probe_reply, confidence,
                    explicit_request, sentiment, check_sentiment_calls >>
    /\ UNCHANGED genVars
    /\ UNCHANGED otherVars

\* if explicit_request: return {...}
ReturnExplicitRequest(c) ==
    /\ pc[c] = "rules"
    /\ confidence[c] # "low"
    /\ explicit_request[c]
    /\ result' =
         [result EXCEPT ![c] = explicit_request_decision(confidence[c])]
    /\ pc' = [pc EXCEPT ![c] = "done"]
    /\ UNCHANGED << confidence_thresholds, query, top_similarity,
                    previous_escalations, probe_reply, confidence,
                    explicit_request, sentiment, check_sentiment_calls >>
    /\ UNCHANGED genVars
    /\ UNCHANGED otherVars

\* if confidence == "medium": sentiment = self.check_sentiment(query),
\* up to the outbound call openai.chat.completions.create(...)
CallCheckSentiment(c) ==
    /\ pc[c] = "rules"
    /\ confidence[c] # "low"
    /\ ~explicit_request[c]
    /\ needs_sentiment(confidence[c])
    /\ check_sentiment_calls' =
         [check_sentiment_calls EXCEPT ![c] = check_sentiment_calls[c] + 1]
    /\ pc' = [pc EXCEPT ![c] = "create"]
    /\ UNCHANGED << confidence_thresholds, query, top_similarity,
                    previous_escalations, probe_reply, confidence,
                    explicit_request, sentiment, result >>
    /\ UNCHANGED genVars
    /\ UNCHANGED otherVars

\* The outbound call raises and check_sentiment is called again.
CreateRaises_retry(c) ==
    /\ pc[c] = "create"
    /\ probe_reply[c].kind = "raises"
    /\ check_sentiment_calls' =
         [check_sentiment_calls EXCEPT ![c] = check_sentiment_calls[c] + 1]
    /\ UNCHANGED << confidence_thresholds, pc, query, top_similarity,
                    previous_escalations, probe_reply, confidence,
                    explicit_request, sentiment, result >>
    /\ UNCHANGED genVars
    /\ UNCHANGED otherVars

\* The outbound call raises: it stands outside check_sentiment's try, and
\* should_escalate has no handler, so the exception leaves should_escalate.
CreateRaises(c) ==
    /\ pc[c] = "create"
    /\ probe_reply[c].kind = "raises"
    /\ result' = [result EXCEPT ![c] = Raised("APIConnectionError")]
    /\ pc' = [pc EXCEPT ![c] = "done"]
    /\ UNCHANGED << confidence_thresholds, query, top_similarity,
                    previous_escalations, probe_reply, confidence,
                    explicit_request, sentiment, check_sentiment_calls >>
    /\ UNCHANGED genVars
    /\ UNCHANGED otherVars

\* The outbound call answers; check_sentiment parses the answer and
\* returns the parsed value or the fallback.
CreateReturns(c) ==
    /\ pc[c] = "create"
    /\ probe_reply[c].kind \in {"invalid", "array", "object"}
    /\ sentiment' = [sentiment EXCEPT ![c] = parse_sentiment(probe_reply[c])]
    /\ pc' = [pc EXCEPT ![c] = "sentiment"]
    /\ UNCHANGED << confidence_thresholds, query, top_similarity,
                    previous_escalations, probe_reply, confidence,
                    explicit_request, result, check_sentiment_calls >>
    /\ UNCHANGED genVars
    /\ UNCHANGED otherVars

\* sentiment.get(...) on a value that is not a dict raises AttributeError.
SentimentGetRaises(c) ==
    /\ pc[c] = "sentiment"
    /\ sentiment[c].type # "dict"
    /\ result' = [result EXCEPT ![c] = Raised("AttributeError")]
    /\ pc' = [pc EXCEPT ![c] = "done"]
    /\ UNCHANGED << confidence_thresholds, query, top_similarity,
                    previous_escalations, probe_reply, confidence,
                    explicit_request, sentiment, check_sentiment_calls >>
    /\ UNCHANGED genVars
    /\ UNCHANGED otherVars

\* if sentiment.get("urgency") == "high" or ...: return {...}
ReturnSentiment(c) ==
    /\ pc[c] = "sentiment"
    /\ sentiment[c].type = "dict"
    /\ sentiment_escalates(sentiment[c])
    /\ result' =
         [result EXCEPT ![c] = sentiment_decision(sentiment[c], confidence[c])]
    /\ pc' = [pc EXCEPT ![c] = "done"]
    /\ UNCHANGED << confidence_thresholds, query, top_similarity,
                    previous_escalations, probe_reply, confidence,
                    explicit_request, sentiment, check_sentiment_calls >>
    /\ UNCHANGED genVars
    /\ UNCHANGED otherVars

\* The default case escalating a customer who was escalated before.
ReturnDefault_history(c) ==
    /\ \/ /\ pc[c] = "rules"
          /\ confidence[c] # "low"
          /\ ~explicit_request[c]
          /\ ~needs_sentiment(confidence[c])
       \/ /\ pc[c] = "sentiment"
          /\ sentiment[c].type = "dict"
          /\ ~sentiment_escalates(sentiment[c])
    /\ result' =
         [result EXCEPT
            ![c] = IF Len(previous_escalations[c].list) > 0
                   THEN Returned(TRUE,
                                 <<"Customer", "was", "escalated",
                                   "before">>, confidence[c])
                   ELSE default_decision(confidence[c])]
    /\ pc' = [pc EXCEPT ![c] = "done"]
    /\ UNCHANGED << confidence_thresholds, query, top_similarity,
                    previous_escalations, probe_reply, confidence,
                    explicit_request, sentiment, check_sentiment_calls >>
    /\ UNCHANGED genVars
    /\ UNCHANGED otherVars

\* Default case: return {"escalate": False, ...}
ReturnDefault(c) ==
    /\ \/ /\ pc[c] = "rules"
          /\ confidence[c] # "low"
          /\ ~explicit_request[c]
          /\ ~needs_sentiment(confidence[c])
       \/ /\ pc[c] = "sentiment"
          /\ sentiment[c].type = "dict"
          /\ ~sentiment_escalates(sentiment[c])
    /\ result' = [result EXCEPT ![c] = default_decision(confidence[c])]
    /\ pc' = [pc EXCEPT ![c] = "done"]
    /\ UNCHANGED << confidence_thresholds, query, top_similarity,
                    previous_escalations, probe_reply, confidence,
                    explicit_request, sentiment, check_sentiment_calls >>
    /\ UNCHANGED genVars
    /\ UNCHANGED otherVars

\* The frame of a call ends: its arguments, locals and results go away.
ResetCall(c) ==
    /\ pc' = [pc EXCEPT ![c] = "idle"]
    /\ query' = [query EXCEPT ![c] = << >>]
    /\ top_similarity' = [top_similarity EXCEPT ![c] = 0]
    /\ previous_escalations' = [previous_escalations EXCEPT ![c] = NoArgument]
    /\ probe_reply' = [probe_reply EXCEPT ![c] = NoReply]
    /\ confidence' = [confidence EXCEPT ![c] = Unbound]
    /\ explicit_request' = [explicit_request EXCEPT ![c] = FALSE]
    /\ sentiment' = [sentiment EXCEPT ![c] = NoSentiment]
    /\ result' = [result EXCEPT ![c] = NoResult]
    /\ check_sentiment_calls' = [check_sentiment_calls EXCEPT ![c] = 0]
    /\ context' = [context EXCEPT ![c] = "None"]
    /\ g_confidence' = [g_confidence EXCEPT ![c] = Unbound]
    /\ g_escalate' = [g_escalate EXCEPT ![c] = FALSE]
    /\ system_prompt' = [system_prompt EXCEPT ![c] = NoPrompt]
    /\ response' = [response EXCEPT ![c] = NoResponse]
    /\ handler' = [handler EXCEPT ![c] = "none"]
    /\ store_answer' = [store_answer EXCEPT ![c] = NoAnswer]
    /\ retrieval_results' =
         [retrieval_results EXCEPT ![c] = NoRetrievalResults]
    /\ retrieval_result' =
         [retrieval_result EXCEPT ![c] = NoRetrievalResult]
    /\ ticket_idx' = [ticket_idx EXCEPT ![c] = 0]
    /\ call_log' = [call_log EXCEPT ![c] = << >>]
    /\ final_response' = [final_response EXCEPT ![c] = NoFinalResponse]
    /\ UNCHANGED << confidence_thresholds, generator_model,
                    relevant_tickets >>
    /\ UNCHANGED << ingestVars, queueVars >>

\* The caller is done with the call: its arguments, locals and result go
\* away with the frame.
Forget(c) ==
    /\ pc[c] = "done"
    /\ ResetCall(c)

Next ==
    \E c \in Calls :
        \/ Invoke(c)
        \/ Classify(c)
        \/ ScanKeywords(c)
        \/ ReturnLowConfidence(c)
        \/ ReturnExplicitRequest(c)
        \/ CallCheckSentiment(c)
        \/ CreateRaises(c)
        \/ CreateReturns(c)
        \/ SentimentGetRaises(c)
        \/ ReturnSentiment(c)
        \/ ReturnDefault(c)
        \/ Forget(c)

Spec == Init /\ [][Next]_vars

\* ---------------------------------------------------- concurrent calls

\* The inputs of calls that run concurrently: a query with and one
\* without a phrase, one similarity per tier, a probe that raises, that
\* alarms and that calms.
ConcurrentQueries == { Q_SpeakToHumanUpper, Q_Order }

ConcurrentSimilarities == { 100000, 500000, 800000 }

ConcurrentReplies ==
    { [kind |-> "raises", urgency |-> "None", sentiment |-> "None"],
      [kind |-> "object", urgency |-> "high", sentiment |-> "negative"],
      [kind |-> "object", urgency |-> "low", sentiment |-> "positive"] }

\* The hosting application invokes should_escalate for a request while
\* calls for other requests may be in progress on the same engine.
InvokeConcurrent(c) ==
    /\ pc[c] = "idle"
    /\ \E q \in ConcurrentQueries, s \in ConcurrentSimilarities,
          r \in ConcurrentReplies :
        /\ query' = [query EXCEPT ![c] = q]
        /\ top_similarity' = [top_similarity EXCEPT ![c] = s]
        /\ probe_reply' = [probe_reply EXCEPT ![c] = r]
    /\ pc' = [pc EXCEPT ![c] = "classify"]
    /\ UNCHANGED << confidence_thresholds, previous_escalations,
                    confidence, explicit_request, sentiment, result,
                    check_sentiment_calls >>
    /\ UNCHANGED genVars
    /\ UNCHANGED otherVars

\* The steps of the calls interleave freely.
NextConcurrent ==
    \E c \in Calls :
        \/ InvokeConcurrent(c)
        \/ Classify(c)
        \/ ScanKeywords(c)
        \/ ReturnLowConfidence(c)
        \/ ReturnExplicitRequest(c)
        \/ CallCheckSentiment(c)
        \/ CreateRaises(c)
        \/ CreateReturns(c)
        \/ ReturnSentiment(c)
        \/ ReturnDefault(c)
        \/ Forget(c)

SpecConcurrent == Init /\ [][NextConcurrent]_vars

\* ------------------------------------------- classification on its own

\* Every call slot holds a similarity score that determine_confidence is
\* about to classify.
InitClassify ==
    /\ confidence_thresholds = [high |-> 650000, medium |-> 450000, low |-> 0]
    /\ pc = [c \in Calls |-> "classify"]
    /\ query = [c \in Calls |-> << >>]
    /\ top_similarity \in [Calls -> Similarities]
    /\ previous_escalations = [c \in Calls |-> NoArgument]
    /\ probe_reply = [c \in Calls |-> NoReply]
    /\ confidence = [c \in Calls |-> Unbound]
    /\ explicit_request = [c \in Calls |-> FALSE]
    /\ sentiment = [c \in Calls |-> NoSentiment]
    /\ result = [c \in Calls |-> NoResult]
    /\ check_sentiment_calls = [c \in Calls |-> 0]
    /\ GenInit
    /\ OtherInit

NextClassify ==
    \E c \in Calls : Classify(c)

SpecClassify == InitClassify /\ [][NextClassify]_vars

\* ------------------------------------------------- response generation

\* The retrieved context process_query passes on: nothing retrieved, or
\* the formatted tickets.
Contexts == { "", "RELEVANT TICKET #1 (Similarity: 0.50): ..." }

\* What the generation call openai.chat.completions.create answers: a
\* text, or no content (None).
GeneratedTexts ==
    { "I'll connect you with a human agent.", "Your order is on its way.",
      "None" }

\* The prompt selection that tests the confidence before the escalation.
select_prompt_confidence_first(q, ctx, triage_result, escalate, conf) ==
    IF conf = "high"
    THEN [variant |-> "high", query |-> q, reason |-> << >>,
          context |-> ctx]
    ELSE IF escalate
    THEN [variant |-> "escalate", query |-> q,
          reason |-> triage_result.reason, context |-> ctx]
    ELSE [variant |-> "medium", query |-> q, reason |-> << >>,
          context |-> ctx]

\* if escalate: ... elif confidence == "high": ... else: ...
\* The three f-strings differ in their fixed text (the variant) and in
\* what they embed: the query and the context, and on the escalation path
\* the reason.
select_prompt(q, ctx, triage_result, escalate, conf) ==
    IF escalate
    THEN [variant |-> "escalate", query |-> q,
          reason |-> triage_result.reason, context |-> ctx]
    ELSE IF conf = "high"
    THEN [variant |-> "high", query |-> q, reason |-> << >>,
          context |-> ctx]
    ELSE [variant |-> "medium", query |-> q, reason |-> << >>,
          context |-> ctx]

\* The returned dict with the escalation worked out from the confidence
\* instead of copied.
make_response_recomputed(text, conf, escalate, triage_result) ==
    [response_text |-> text, confidence |-> conf,
     should_escalate |-> (conf = "low"),
     reason |-> triage_result.reason, returned |-> TRUE]

\* return {"response_text": ..., "confidence": confidence,
\*         "should_escalate": escalate, "reason": triage_result["reason"]}
make_response(text, conf, escalate, triage_result) ==
    [response_text |-> text, confidence |-> conf,
     should_escalate |-> escalate,
     reason |-> triage_result.reason, returned |-> TRUE]

\* process_query starts on a query: its retrieval gives top_similarity,
\* and it calls should_escalate(query, top_similarity) without
\* previous_escalations; one query is processed at a time.
ProcessQuery(c) ==
    /\ \A d \in Calls : pc[d] = "idle"
    /\ \E q \in Queries, s \in Similarities, r \in ProbeReplies :
        /\ query' = [query EXCEPT ![c] = q]
        /\ top_similarity' = [top_similarity EXCEPT ![c] = s]
        /\ probe_reply' = [probe_reply EXCEPT ![c] = r]
    /\ pc' = [pc EXCEPT ![c] = "classify"]
    /\ UNCHANGED << confidence_thresholds, previous_escalations,
                    confidence, explicit_request, sentiment, result,
                    check_sentiment_calls >>
    /\ UNCHANGED genVars
    /\ UNCHANGED otherVars

triageVars ==
    << confidence_thresholds, query, top_similarity, previous_escalations,
       probe_reply, confidence, explicit_request, sentiment, result,
       check_sentiment_calls >>

\* process_query calls generate_response(query, formatted_context,
\* triage_result) with the decision should_escalate returned;
\* confidence = triage_result["confidence"],
\* escalate = triage_result["escalate"]
CallGenerateResponse(c) ==
    /\ pc[c] = "done"
    /\ result[c].outcome = "returned"
    /\ \E ctx \in Contexts : context' = [context EXCEPT ![c] = ctx]
    /\ g_confidence' = [g_confidence EXCEPT ![c] = result[c].confidence]
    /\ g_escalate' = [g_escalate EXCEPT ![c] = result[c].escalate]
    /\ pc' = [pc EXCEPT ![c] = "prompt"]
    /\ UNCHANGED << generator_model, system_prompt, response >>
    /\ UNCHANGED triageVars
    /\ UNCHANGED otherVars

\* The prompt selection that takes the reason out of triage_result
\* (dict.pop) when it embeds it.
SelectPrompt_pop(c) ==
    /\ pc[c] = "prompt"
    /\ system_prompt' =
         [system_prompt EXCEPT
            ![c] = select_prompt(query[c], context[c], result[c],
                                 g_escalate[c], g_confidence[c])]
    /\ result' = [result EXCEPT ![c].reason = << >>]
    /\ pc' = [pc EXCEPT ![c] = "generate"]
    /\ UNCHANGED << generator_model, context, g_confidence, g_escalate,
                    response >>
    /\ UNCHANGED << confidence_thresholds, query, top_similarity,
                    previous_escalations, probe_reply, confidence,
                    explicit_request, sentiment, check_sentiment_calls >>
    /\ UNCHANGED otherVars

\* Create prompt based on confidence level
SelectPrompt(c) ==
    /\ pc[c] = "prompt"
    /\ system_prompt' =
         [system_prompt EXCEPT
            ![c] = select_prompt(query[c], context[c], result[c],
                                 g_escalate[c], g_confidence[c])]
    /\ pc' = [pc EXCEPT ![c] = "generate"]
    /\ UNCHANGED << generator_model, context, g_confidence, g_escalate,
                    response >>
    /\ UNCHANGED triageVars
    /\ UNCHANGED otherVars

\* The generation call answers and generate_response returns its dict.
GenerateReturns(c) ==
    /\ pc[c] = "generate"
    /\ \E text \in GeneratedTexts :
         response' =
           [response EXCEPT
              ![c] = make_response(text, g_confidence[c], g_escalate[c],
                                   result[c])]
    /\ pc' = [pc EXCEPT ![c] = "responded"]
    /\ UNCHANGED << generator_model, context, g_confidence, g_escalate,
                    system_prompt >>
    /\ UNCHANGED triageVars
    /\ UNCHANGED otherVars

\* The generation call raises and the caller asks for the response once
\* more.
GenerateRaises_retry(c) ==
    /\ pc[c] = "generate"
    /\ Len(call_log[c]) < 6
    /\ pc' = [pc EXCEPT ![c] = "done"]
    /\ UNCHANGED genVars
    /\ UNCHANGED triageVars
    /\ UNCHANGED otherVars

\* The generation call raises; generate_response and process_query have
\* no handler, the exception leaves both and no response exists.
GenerateRaises(c) ==
    /\ pc[c] = "generate"
    /\ pc' = [pc EXCEPT ![c] = "failed"]
    /\ UNCHANGED genVars
    /\ UNCHANGED triageVars
    /\ UNCHANGED otherVars

\* process_query ends: it returns the response, or an exception of
\* should_escalate or of generate_response leaves it.
EndProcessQuery(c) ==
    /\ \/ pc[c] \in {"responded", "failed"}
       \/ pc[c] = "done" /\ result[c].outcome = "raised"
    /\ ResetCall(c)

NextPipeline ==
    \E c \in Calls :
        \/ ProcessQuery(c)
        \/ Classify(c)
        \/ ScanKeywords(c)
        \/ ReturnLowConfidence(c)
        \/ ReturnExplicitRequest(c)
        \/ CallCheckSentiment(c)
        \/ CreateRaises(c)
        \/ CreateReturns(c)
        \/ SentimentGetRaises(c)
        \/ ReturnSentiment(c)
        \/ ReturnDefault(c)
        \/ CallGenerateResponse(c)
        \/ SelectPrompt(c)
        \/ GenerateReturns(c)
        \/ GenerateRaises(c)
        \/ EndProcessQuery(c)

SpecPipeline == Init /\ [][NextPipeline]_vars

\* ------------------------------------------------------------- retrieval

\* What collection.query(query_texts=[query], n_results=3) of the vector
\* database does: it raises, or it returns, for the one query text, up to
\* three documents with their ids and distances, nearest first.  The
\* distances are not negative; nothing in the construction of the
\* collection (no distance function is chosen) keeps them below 1.
\* Distances and similarities are in millionths.
StoreAnswers ==
    { [kind |-> "raises", documents |-> << >>, ids |-> << >>,
       distances |-> << >>],
      [kind |-> "returns", documents |-> << << >> >>, ids |-> << << >> >>,
       distances |-> << << >> >>],
      [kind |-> "returns", documents |-> << <<"where is my parcel">> >>,
       ids |-> << <<"ORD-1">> >>, distances |-> << <<0>> >>],
      [kind |-> "returns", documents |-> << <<"where is my parcel">> >>,
       ids |-> << <<"ORD-1">> >>, distances |-> << <<200000>> >>],
      [kind |-> "returns",
       documents |-> << <<"where is my parcel", "late delivery">> >>,
       ids |-> << <<"ORD-1", "ORD-2">> >>,
       distances |-> << <<350000, 350000>> >>],
      [kind |-> "returns",
       documents |-> << <<"late delivery", "refund request">> >>,
       ids |-> << <<"ORD-2", "ORD-3">> >>,
       distances |-> << <<500000, 700000>> >>],
      [kind |-> "returns",
       documents |-> << <<"late delivery", "refund request",
                          "password reset">> >>,
       ids |-> << <<"ORD-2", "ORD-3", "ticket_7">> >>,
       distances |-> << <<600000, 900000, 1300000>> >> ] }

\* return {"documents": results["documents"][0], "ids": results["ids"][0],
\*         "distances": results["distances"][0]}
query_tickets(chroma) ==
    [documents |-> chroma.documents[1], ids |-> chroma.ids[1],
     distances |-> chroma.distances[1]]

\* retrieve_relevant_tickets with the conditional expression bound the
\* other way: 1.0 - (distances[0] if distances else 0).
retrieve_relevant_tickets_precedence(results) ==
    [results |->
       [n \in 1..Len(results.documents) |->
          [content |-> results.documents[n],
           similarity |-> 1000000 - results.distances[n],
           id |-> results.ids[n]]],
     top_similarity |->
       1000000 - (IF Len(results.distances) > 0
                  THEN results.distances[1] ELSE 0),
     bound |-> TRUE]

\* formatted_results: one record per document, similarity 1.0 - distance;
\* "top_similarity": 1.0 - results["distances"][0]
\*                   if results["distances"] else 0
retrieve_relevant_tickets(results) ==
    [results |->
       [n \in 1..Len(results.documents) |->
          [content |-> results.documents[n],
           similarity |-> 1000000 - results.distances[n],
           id |-> results.ids[n]]],
     top_similarity |->
       IF Len(results.distances) > 0
       THEN 1000000 - results.distances[1] ELSE 0,
     bound |-> TRUE]

\* f"{similarity:.2f}": the similarity in hundredths, rounded to the
\* nearest.
two_decimals(similarity) == (similarity + 5000) \div 10000

\* context_parts: "RELEVANT TICKET #{i+1} (Similarity: ...):\n{content}\n"
\* for each result, joined in order; ticket_ids: the ids in order.
format_context_for_prompt(retrieved) ==
    [formatted_context |->
       [n \in 1..Len(retrieved.results) |->
          [ticket |-> n,
           similarity |-> two_decimals(retrieved.results[n].similarity),
           content |-> retrieved.results[n].content]],
     top_similarity |-> retrieved.top_similarity,
     ticket_ids |->
       [n \in 1..Len(retrieved.results) |-> retrieved.results[n].id],
     bound |-> TRUE]

\* response["relevant_ticket_ids"] = retrieval_result["ticket_ids"]
\* response["similarity_score"] = top_similarity
annotate(resp, retrieved) ==
    [response_text |-> resp.response_text, confidence |-> resp.confidence,
     should_escalate |-> resp.should_escalate, reason |-> resp.reason,
     relevant_ticket_ids |-> retrieved.ticket_ids,
     similarity_score |-> retrieved.top_similarity, returned |-> TRUE]

\* A handler starts on a query and calls
\* retrieval_engine.format_context_for_prompt(query), which calls
\* retrieve_relevant_tickets, which calls query_tickets; what the vector
\* database and the sentiment service will do is fixed here.
Enter(c, h, q, a, r) ==
    /\ pc[c] = "idle"
    /\ handler' = [handler EXCEPT ![c] = h]
    /\ query' = [query EXCEPT ![c] = q]
    /\ store_answer' = [store_answer EXCEPT ![c] = a]
    /\ probe_reply' = [probe_reply EXCEPT ![c] = r]
    /\ call_log' = [call_log EXCEPT ![c] = <<"format_context_for_prompt">>]
    /\ pc' = [pc EXCEPT ![c] = "retrieve"]
    /\ UNCHANGED << confidence_thresholds, top_similarity,
                    previous_escalations, confidence, explicit_request,
                    sentiment, result, check_sentiment_calls >>
    /\ UNCHANGED genVars
    /\ UNCHANGED << retrieval_results, retrieval_result, ticket_idx,
                    relevant_tickets, final_response >>
    /\ UNCHANGED << ingestVars, queueVars >>

\* process_query(query) is called; one query is processed at a time.
StartProcessQuery(c) ==
    /\ \A d \in Calls : pc[d] = "idle"
    /\ \E q \in Queries, a \in StoreAnswers, r \in ProbeReplies :
         Enter(c, "process_query", q, a, r)

\* run_app: st.chat_input yields a prompt.
ChatInput(c) ==
    /\ \A d \in Calls : pc[d] = "idle"
    /\ \E q \in Queries, a \in StoreAnswers, r \in ProbeReplies :
         Enter(c, "run_app", q, a, r)

\* What an action of the interface leaves alone in the two engines.
enginesUnchanged ==
    /\ UNCHANGED << confidence_thresholds, query, previous_escalations,
                    probe_reply, confidence, explicit_request, sentiment,
                    result, check_sentiment_calls >>
    /\ UNCHANGED << generator_model, g_confidence, g_escalate,
                    system_prompt, response >>
    /\ UNCHANGED << ingestVars, queueVars >>

\* collection.query raises: query_tickets, retrieve_relevant_tickets,
\* format_context_for_prompt and the handler have no try around it.
QueryRaises(c) ==
    /\ pc[c] = "retrieve"
    /\ store_answer[c].kind = "raises"
    /\ pc' = [pc EXCEPT ![c] = "failed"]
    /\ enginesUnchanged
    /\ UNCHANGED << top_similarity, context, handler, store_answer,
                    retrieval_results, retrieval_result, ticket_idx,
                    relevant_tickets, call_log, final_response >>

\* results = self.vector_store.query_tickets(query, n_results=n_results)
\* and the formatting of the results.
RetrieveRelevantTickets(c) ==
    /\ pc[c] = "retrieve"
    /\ store_answer[c].kind = "returns"
    /\ retrieval_results' =
         [retrieval_results EXCEPT
            ![c] = retrieve_relevant_tickets(query_tickets(store_answer[c]))]
    /\ pc' = [pc EXCEPT ![c] = "format"]
    /\ enginesUnchanged
    /\ UNCHANGED << top_similarity, context, handler, store_answer,
                    retrieval_result, ticket_idx, relevant_tickets,
                    call_log, final_response >>

\* format_context_for_prompt returns to the handler; the chat handler
\* then empties st.session_state.relevant_tickets and starts its loop
\* over the ticket ids.
FormatContextForPrompt(c) ==
    /\ pc[c] = "format"
    /\ retrieval_result' =
         [retrieval_result EXCEPT
            ![c] = format_context_for_prompt(retrieval_results[c])]
    /\ IF handler[c] = "run_app"
       THEN /\ relevant_tickets' = << >>
            /\ ticket_idx' = [ticket_idx EXCEPT ![c] = 1]
            /\ pc' = [pc EXCEPT ![c] = "tickets"]
       ELSE /\ UNCHANGED << relevant_tickets, ticket_idx >>
            /\ pc' = [pc EXCEPT ![c] = "triage"]
    /\ enginesUnchanged
    /\ UNCHANGED << top_similarity, context, handler, store_answer,
                    retrieval_results, call_log, final_response >>

\* The outcomes of collection.get(ids=[ticket_id]).
GetOutcomes == {"found", "missing", "raises"}


\* for ticket_id in retrieval_result["ticket_ids"]: the chat handler gets
\* the document from the collection and appends (ticket_id, ticket_doc)
\* to st.session_state.relevant_tickets when there is one; an exception
\* is printed and the loop goes on.
GetTicket(c) ==
    /\ pc[c] = "tickets"
    /\ ticket_idx[c] <= Len(retrieval_result[c].ticket_ids)
    /\ \E outcome \in GetOutcomes :
         relevant_tickets' =
           IF outcome = "found"
           THEN Append(relevant_tickets,
                       << retrieval_result[c].ticket_ids[ticket_idx[c]],
                          retrieval_results[c].results[ticket_idx[c]].content >>)
           ELSE relevant_tickets
    /\ ticket_idx' = [ticket_idx EXCEPT ![c] = @ + 1]
    /\ call_log' = [call_log EXCEPT ![c] = Append(@, "collection.get")]
    /\ enginesUnchanged
    /\ UNCHANGED << pc, top_similarity, context, handler, store_answer,
                    retrieval_results, retrieval_result, final_response >>

\* The loop over the ticket ids is over.
TicketsDone(c) ==
    /\ pc[c] = "tickets"
    /\ ticket_idx[c] > Len(retrieval_result[c].ticket_ids)
    /\ pc' = [pc EXCEPT ![c] = "triage"]
    /\ enginesUnchanged
    /\ UNCHANGED << top_similarity, context, handler, store_answer,
                    retrieval_results, retrieval_result, ticket_idx,
                    relevant_tickets, call_log, final_response >>

\* triage_result = self.triage_engine.should_escalate(
\*     query, retrieval_result["top_similarity"])
CallShouldEscalate(c) ==
    /\ pc[c] = "triage"
    /\ top_similarity' =
         [top_similarity EXCEPT ![c] = retrieval_result[c].top_similarity]
    /\ call_log' = [call_log EXCEPT ![c] = Append(@, "should_escalate")]
    /\ pc' = [pc EXCEPT ![c] = "classify"]
    /\ enginesUnchanged
    /\ UNCHANGED << context, handler, store_answer, retrieval_results,
                    retrieval_result, ticket_idx, relevant_tickets,
                    final_response >>

\* response = self.response_generator.generate_response(
\*     query, retrieval_result["formatted_context"], triage_result)
CallGenerateResponseWithContext(c) ==
    /\ pc[c] = "done"
    /\ result[c].outcome = "returned"
    /\ context' = [context EXCEPT ![c] = retrieval_result[c].formatted_context]
    /\ g_confidence' = [g_confidence EXCEPT ![c] = result[c].confidence]
    /\ g_escalate' = [g_escalate EXCEPT ![c] = result[c].escalate]
    /\ call_log' = [call_log EXCEPT ![c] = Append(@, "generate_response")]
    /\ pc' = [pc EXCEPT ![c] = "prompt"]
    /\ UNCHANGED << generator_model, system_prompt, response >>
    /\ UNCHANGED triageVars
    /\ UNCHANGED << handler, store_answer, retrieval_results,
                    retrieval_result, ticket_idx, relevant_tickets,
                    final_response >>
    /\ UNCHANGED << ingestVars, queueVars >>

\* The ids of the tickets the chat handler found in the collection.
displayed_ids ==
    [n \in 1..Len(relevant_tickets) |-> relevant_tickets[n][1]]

\* The annotation in which the chat handler reports the tickets it put on
\* display instead of the retrieved ones.
Annotate_displayed(c) ==
    /\ pc[c] = "responded"
    /\ final_response' =
         [final_response EXCEPT
            ![c] = IF handler[c] = "run_app"
                   THEN [annotate(response[c], retrieval_result[c])
                           EXCEPT !.relevant_ticket_ids = displayed_ids]
                   ELSE annotate(response[c], retrieval_result[c])]
    /\ pc' = [pc EXCEPT ![c] = "returned"]
    /\ enginesUnchanged
    /\ UNCHANGED << top_similarity, context, handler, store_answer,
                    retrieval_results, retrieval_result, ticket_idx,
                    relevant_tickets, call_log >>

\* Add retrieved ticket IDs and similarity to the response; process_query
\* returns it, the chat handler goes on to display it.
Annotate(c) ==
    /\ pc[c] = "responded"
    /\ final_response' =
         [final_response EXCEPT
            ![c] = annotate(response[c], retrieval_result[c])]
    /\ pc' = [pc EXCEPT ![c] = "returned"]
    /\ enginesUnchanged
    /\ UNCHANGED << top_similarity, context, handler, store_answer,
                    retrieval_results, retrieval_result, ticket_idx,
                    relevant_tickets, call_log >>

\* The handler is over: the caller has the response, or an exception of
\* the retrieval, of should_escalate or of generate_response left it.
EndHandler(c) ==
    /\ \/ pc[c] \in {"returned", "failed"}
       \/ pc[c] = "done" /\ result[c].outcome = "raised"
    /\ handler[c] # "none"
    /\ ResetCall(c)

\* The steps of a handler after its start, as long as the vector database
\* and the sentiment service answer.
HandlerStep(c) ==
    \/ RetrieveRelevantTickets(c)
    \/ FormatContextForPrompt(c)
    \/ GetTicket(c)
    \/ TicketsDone(c)
    \/ CallShouldEscalate(c)
    \/ Classify(c)
    \/ ScanKeywords(c)
    \/ ReturnLowConfidence(c)
    \/ ReturnExplicitRequest(c)
    \/ CallCheckSentiment(c)
    \/ CreateReturns(c)
    \/ ReturnSentiment(c)
    \/ ReturnDefault(c)
    \/ CallGenerateResponseWithContext(c)
    \/ SelectPrompt(c)
    \/ GenerateReturns(c)
    \/ GenerateRaises(c)
    \/ Annotate(c)
    \/ EndHandler(c)

NextApp ==
    \E c \in Calls :
        \/ StartProcessQuery(c)
        \/ ChatInput(c)
        \/ QueryRaises(c)
        \/ CreateRaises(c)
        \/ SentimentGetRaises(c)
        \/ HandlerStep(c)

SpecApp == Init /\ [][NextApp]_vars

\* --------------------------------------------- the two handlers side by side

\* Inputs for running process_query and the chat handler on the same
\* query: a query with and one without a request for a human, an empty
\* result, a HIGH and a MEDIUM one, and a sentiment answer that escalates
\* and one that does not.
HandlerQueries == { Q_SpeakToHumanUpper, Q_Order }

HandlerAnswers ==
    { a \in StoreAnswers :
        /\ a.kind = "returns"
        /\ a.distances[1] \in { << >>, <<200000>>, <<500000, 700000>> } }

HandlerReplies ==
    { r \in ConcurrentReplies : r.kind = "object" }

\* process_query starts while the response of at most one earlier query
\* is still at hand.
StartProcessQueryBeside(c) ==
    /\ \A d \in Calls \ {c} : pc[d] \in {"idle", "returned"}
    /\ Cardinality({ d \in Calls : pc[d] = "returned" }) <= 1
    /\ \E q \in HandlerQueries, a \in HandlerAnswers, r \in HandlerReplies :
         Enter(c, "process_query", q, a, r)

\* The chat handler starts while the response of at most one earlier
\* query is still at hand.
ChatInputBeside(c) ==
    /\ \A d \in Calls \ {c} : pc[d] \in {"idle", "returned"}
    /\ Cardinality({ d \in Calls : pc[d] = "returned" }) <= 1
    /\ \E q \in HandlerQueries, a \in HandlerAnswers, r \in HandlerReplies :
         Enter(c, "run_app", q, a, r)

NextHandlers ==
    \E c \in Calls :
        \/ StartProcessQueryBeside(c)
        \/ ChatInputBeside(c)
        \/ HandlerStep(c)

SpecHandlers == Init /\ [][NextHandlers]_vars

\* -------------------------------------------------------------- ingestion

\* batch_size of add_tickets.  The code has 50; the model takes a small
\* batch so that a few documents make several batches.
batch_size == 2

\* end_idx = min(i + batch_size, len(documents))
end_idx(start) ==
    IF start + batch_size <= Len(documents)
    THEN start + batch_size ELSE Len(documents)

\* The rows of documents[i:end_idx] (i counted from 0).
batch_rows(start) == { documents[k] : k \in (start + 1)..end_idx(start) }

\* add_tickets(tickets_df) is called with a frame of up to MaxTickets
\* rows.
CallAddTickets ==
    /\ add_pc = "idle"
    /\ \E n \in 0..MaxTickets : tickets' = n
    /\ ticket_row' = 0
    /\ documents' = << >>
    /\ add_pc' = "prepare"
    /\ UNCHANGED << batch_start, single_idx, collection, batch_adds,
                    single_adds, added >>

\* for idx, ticket in tickets_df.iterrows(): the row becomes a document
\* with metadata and id, or its preparation raises and the row is left
\* out.
PrepareTicket ==
    /\ add_pc = "prepare"
    /\ ticket_row < tickets
    /\ \E prepared \in BOOLEAN :
         documents' = IF prepared
                      THEN Append(documents, ticket_row + 1)
                      ELSE documents
    /\ ticket_row' = ticket_row + 1
    /\ UNCHANGED << add_pc, tickets, batch_start, single_idx, collection,
                    batch_adds, single_adds, added >>

\* for i in range(0, len(documents), batch_size): the loop starts.
StartBatches ==
    /\ add_pc = "prepare"
    /\ ticket_row = tickets
    /\ batch_start' = 0
    /\ add_pc' = "batch"
    /\ UNCHANGED << tickets, ticket_row, documents, single_idx, collection,
                    batch_adds, single_adds, added >>

\* collection.add(documents[i:end_idx], ...) accepts the batch.
BatchAdded ==
    /\ add_pc = "batch"
    /\ batch_start < Len(documents)
    /\ collection' = collection \cup batch_rows(batch_start)
    /\ batch_adds' =
         [r \in Rows |-> IF r \in batch_rows(batch_start)
                         THEN batch_adds[r] + 1 ELSE batch_adds[r]]
    /\ batch_start' = batch_start + batch_size
    /\ UNCHANGED << add_pc, tickets, ticket_row, documents, single_idx,
                    single_adds, added >>

\* collection.add raises for the batch and accepts none of it: the
\* documents of the batch are then added one by one, for j in
\* range(i, end_idx).
BatchRaises ==
    /\ add_pc = "batch"
    /\ batch_start < Len(documents)
    /\ batch_adds' =
         [r \in Rows |-> IF r \in batch_rows(batch_start)
                         THEN batch_adds[r] + 1 ELSE batch_adds[r]]
    /\ single_idx' = batch_start
    /\ add_pc' = "single"
    /\ UNCHANGED << tickets, ticket_row, documents, batch_start,
                    collection, single_adds, added >>

\* The individual add that ends add_tickets when it raises.
SingleRaises_abort ==
    /\ add_pc = "single"
    /\ single_idx < end_idx(batch_start)
    /\ single_adds' =
         [single_adds EXCEPT ![documents[single_idx + 1]] = @ + 1]
    /\ added' = Len(documents)
    /\ add_pc' = "returned"
    /\ UNCHANGED << tickets, ticket_row, documents, batch_start,
                    single_idx, collection, batch_adds >>

\* collection.add([documents[j]], ...) accepts the document.
SingleAdded ==
    /\ add_pc = "single"
    /\ single_idx < end_idx(batch_start)
    /\ collection' = collection \cup { documents[single_idx + 1] }
    /\ single_adds' =
         [single_adds EXCEPT ![documents[single_idx + 1]] = @ + 1]
    /\ single_idx' = single_idx + 1
    /\ UNCHANGED << add_pc, tickets, ticket_row, documents, batch_start,
                    batch_adds, added >>

\* collection.add([documents[j]], ...) raises: the error is printed and
\* the loop goes on.
SingleRaises ==
    /\ add_pc = "single"
    /\ single_idx < end_idx(batch_start)
    /\ single_adds' =
         [single_adds EXCEPT ![documents[single_idx + 1]] = @ + 1]
    /\ single_idx' = single_idx + 1
    /\ UNCHANGED << add_pc, tickets, ticket_row, documents, batch_start,
                    collection, batch_adds, added >>

\* The loop over j is over: the loop over the batches goes on.
SinglesDone ==
    /\ add_pc = "single"
    /\ single_idx = end_idx(batch_start)
    /\ batch_start' = batch_start + batch_size
    /\ add_pc' = "batch"
    /\ UNCHANGED << tickets, ticket_row, documents, single_idx, collection,
                    batch_adds, single_adds, added >>

\* return len(documents)
ReturnAddTickets ==
    /\ add_pc = "batch"
    /\ batch_start >= Len(documents)
    /\ added' = Len(documents)
    /\ add_pc' = "returned"
    /\ UNCHANGED << tickets, ticket_row, documents, batch_start,
                    single_idx, collection, batch_adds, single_adds >>

\* The caller has the count; the next load starts on a new, empty
\* in-memory store.
NewVectorStore ==
    /\ add_pc = "returned"
    /\ add_pc' = "idle"
    /\ tickets' = 0
    /\ ticket_row' = 0
    /\ documents' = << >>
    /\ batch_start' = 0
    /\ single_idx' = 0
    /\ collection' = {}
    /\ batch_adds' = [r \in Rows |-> 0]
    /\ single_adds' = [r \in Rows |-> 0]
    /\ added' = -1

\* What add_tickets leaves alone.
ingestFrame ==
    /\ UNCHANGED << confidence_thresholds, pc >>
    /\ UNCHANGED triageVars
    /\ UNCHANGED genVars
    /\ UNCHANGED << interfaceVars, queueVars >>

NextIngest ==
    /\ \/ CallAddTickets
       \/ PrepareTicket
       \/ StartBatches
       \/ BatchAdded
       \/ BatchRaises
       \/ SingleAdded
       \/ SingleRaises
       \/ SinglesDone
       \/ ReturnAddTickets
       \/ NewVectorStore
    /\ ingestFrame

SpecIngest == Init /\ [][NextIngest]_vars

\* ------------------------------------------------------------ agent queue

\* Upper bound on the seconds the clock advances.
MaxClock == 2

\* Upper bound on the conversations that wait for an agent.
MaxPending == 3

\* conv_id = f"conv_{int(time.time())}_{len(pending_conversations)}"
conv_id(now, pending) == << "conv", now, Len(pending) >>

\* A second passes.
Tick ==
    /\ clock < MaxClock
    /\ clock' = clock + 1
    /\ UNCHANGED << pending_conversations, agent_responses >>

\* add_to_agent_queue(query, bot_response, reason)
AddToAgentQueue ==
    /\ Len(pending_conversations) < MaxPending
    /\ \E q \in HandlerQueries :
         pending_conversations' =
           Append(pending_conversations,
                  [id |-> conv_id(clock, pending_conversations),
                   query |-> q])
    /\ UNCHANGED << clock, agent_responses >>

\* _handle_agent_response(conversation, response) for a conversation of
\* the pending list: every conversation with its id leaves the list and
\* the response is stored under the id.
HandleAgentResponse ==
    \E n \in 1..Len(pending_conversations) :
        LET conversation == pending_conversations[n]
            Other(conv) == conv.id # conversation.id
        IN  /\ pending_conversations' =
                 SelectSeq(pending_conversations, Other)
            /\ agent_responses' = agent_responses \cup { conversation.id }
            /\ UNCHANGED clock

\* What the agent queue leaves alone.
queueFrame ==
    /\ UNCHANGED << confidence_thresholds, pc >>
    /\ UNCHANGED triageVars
    /\ UNCHANGED genVars
    /\ UNCHANGED << interfaceVars, ingestVars >>

NextQueue ==
    /\ \/ Tick
       \/ AddToAgentQueue
       \/ HandleAgentResponse
    /\ queueFrame

SpecQueue == Init /\ [][NextQueue]_vars

\* ------------------------------------------------- vocabulary of the claims

\* The tiers of the specification (4.1): HIGH >= 0.65, MEDIUM >= 0.45,
\* else LOW, on similarity in millionths.
TierHigh(s) == s >= 650000

TierMedium(s) == s >= 450000 /\ s < 650000

TierLow(s) == s < 450000

\* The sample queries that contain one of the four phrases (in any case),
\* and those that do not, by inspection of their text.
QueriesWithPhrase ==
    { Q_TalkToAgent, Q_SpeakToHumanUpper, Q_RealPerson, Q_HumanAgent }

QueriesWithoutPhrase ==
    { Q_Order, Q_NearMiss, Q_NotHuman, Q_Empty }

\* The signal of the specification's probe: the answer's two values, or
\* the default {low, neutral} when the answer cannot be parsed.
ProbeSignal(reply) ==
    IF reply.kind = "object"
    THEN [urgency |-> reply.urgency, sentiment |-> reply.sentiment]
    ELSE [urgency |-> "low", sentiment |-> "neutral"]

\* The rule of the ordered first-match-wins algorithm (4.2) that decides.
FirstMatch(s, q, signal) ==
    IF TierLow(s) THEN "low"
    ELSE IF q \in QueriesWithPhrase THEN "explicit"
    ELSE IF TierMedium(s)
            /\ (signal.urgency = "high" \/ signal.sentiment = "negative")
         THEN "sentiment"
    ELSE "default"

\* The rule a returned decision shows, read off its reason.
RuleOf(r) ==
    IF ~r.escalate THEN "default"
    ELSE IF r.reason[2] = "confidence" THEN "low"
    ELSE IF r.reason[2] = "explicitly" THEN "explicit"
    ELSE "sentiment"

Ended(c) == pc[c] = "done"

ReturnedDecision(c) == pc[c] = "done" /\ result[c].outcome = "returned"

\* A well-formed decision {escalate, reason, confidence}.
WellFormed(r) ==
    /\ r.outcome = "returned"
    /\ r.escalate \in BOOLEAN
    /\ Len(r.reason) > 0
    /\ r.confidence \in {"low", "medium", "high"}

ExplicitReason ==
    <<"Customer", "explicitly", "requested", "human", "assistance">>

LowReason ==
    <<"Low", "confidence", "in", "automated", "response">>

\* ------------------------------------------------------------------- claims

\* C1: every decision should_escalate returns is the decision of the
\* ordered first-match-wins algorithm on (tier, phrase present, probe
\* signal): LOW escalates by the low-confidence rule, else a phrase
\* escalates by the explicit-request rule, else MEDIUM with urgency high or
\* sentiment negative escalates by the sentiment rule, else no escalation.
C1_FirstMatchWins ==
    \A c \in Calls :
        ReturnedDecision(c) =>
            LET rule == FirstMatch(top_similarity[c], query[c],
                                   ProbeSignal(probe_reply[c]))
            IN /\ result[c].escalate = (rule # "default")
               /\ RuleOf(result[c]) = rule

\* C1 witness: a MEDIUM call without a phrase went past the first two
\* rules and was escalated by the sentiment rule.
C1_Witness ==
    \E c \in Calls :
        /\ ReturnedDecision(c)
        /\ top_similarity[c] = 500000
        /\ query[c] = Q_Order
        /\ probe_reply[c].kind = "object"
        /\ probe_reply[c].sentiment = "negative"
        /\ probe_reply[c].urgency = "low"
        /\ result[c].escalate
        /\ RuleOf(result[c]) = "sentiment"

\* C2: a call with top_similarity in the LOW tier ends by returning
\* escalate = true and confidence = low, for every query text and every
\* behaviour of the sentiment service.
C2_LowTierEscalates ==
    \A c \in Calls :
        (Ended(c) /\ TierLow(top_similarity[c])) =>
            /\ result[c].outcome = "returned"
            /\ result[c].escalate
            /\ result[c].confidence = "low"

\* C2 witness: should_escalate(query, 0.1) returned an escalation.
C2_Witness ==
    \E c \in Calls :
        /\ ReturnedDecision(c)
        /\ top_similarity[c] = 100000
        /\ query[c] = Q_Order
        /\ result[c].escalate
        /\ result[c].confidence = "low"

\* C3 as claimed: a query containing a human-request phrase is escalated
\* with the explicit-request reason, whatever the tier.
C3_ExplicitReasonAnyTier ==
    \A c \in Calls :
        (Ended(c) /\ query[c] \in QueriesWithPhrase) =>
            /\ result[c].outcome = "returned"
            /\ result[c].escalate
            /\ result[c].reason = ExplicitReason

\* C3 as amended: a query containing a human-request phrase is escalated
\* whatever the tier; the reason is the explicit-request reason at MEDIUM
\* and HIGH, and the low-confidence reason at LOW, where the
\* low-confidence rule comes first.
C3_ExplicitRequestEscalates ==
    \A c \in Calls :
        (Ended(c) /\ query[c] \in QueriesWithPhrase) =>
            /\ result[c].outcome = "returned"
            /\ result[c].escalate
            /\ result[c].reason =
                 IF TierLow(top_similarity[c]) THEN LowReason
                 ELSE ExplicitReason

\* C3 witness: "SPEAK TO HUMAN" at similarity 0.9 was escalated as an
\* explicit request.
C3_Witness ==
    \E c \in Calls :
        /\ ReturnedDecision(c)
        /\ query[c] = Q_SpeakToHumanUpper
        /\ top_similarity[c] = 900000
        /\ result[c].escalate
        /\ result[c].reason = ExplicitReason

\* C4 as claimed: when the sentiment probe fails (the outbound call
\* raises) or answers with malformed data while a MEDIUM-tier query is
\* decided, the call still ends by returning a well-formed decision.
C4_ProbeFailureDegrades ==
    \A c \in Calls :
        (/\ Ended(c)
         /\ TierMedium(top_similarity[c])
         /\ check_sentiment_calls[c] > 0
         /\ probe_reply[c].kind \in {"raises", "invalid", "array"}) =>
            WellFormed(result[c])

\* C5 as claimed, in the form a finite run refutes: every call that has
\* ended has ended by returning a decision, never in an unhandled failure.
C5_AlwaysReturnsDecision ==
    \A c \in Calls :
        Ended(c) => WellFormed(result[c])

\* C6: a call with top_similarity in the HIGH tier never invokes the
\* sentiment probe: its check_sentiment call count is 0 at every point.
C6_HighTierNeverProbes ==
    \A c \in Calls :
        (pc[c] # "idle" /\ TierHigh(top_similarity[c])) =>
            check_sentiment_calls[c] = 0

\* C6 witness: should_escalate(query, 0.8) returned for a query the
\* service would call negative and urgent, with no probe call made.
C6_Witness ==
    \E c \in Calls :
        /\ ReturnedDecision(c)
        /\ top_similarity[c] = 800000
        /\ query[c] = Q_NotHuman
        /\ probe_reply[c].kind = "object"
        /\ probe_reply[c].urgency = "high"
        /\ check_sentiment_calls[c] = 0

\* C7: within one call the sentiment probe is invoked at most once, and
\* only when the tier is MEDIUM and the query holds no human-request
\* phrase; it is never retried, also not after a failure.
C7_ProbeAtMostOnceMediumOnly ==
    \A c \in Calls :
        /\ check_sentiment_calls[c] <= 1
        /\ check_sentiment_calls[c] >= 1 =>
              /\ TierMedium(top_similarity[c])
              /\ query[c] \in QueriesWithoutPhrase

\* C7 witness: a call whose one probe call raised has ended with a call
\* count of exactly one.
C7_Witness ==
    \E c \in Calls :
        /\ Ended(c)
        /\ probe_reply[c].kind = "raises"
        /\ check_sentiment_calls[c] = 1

\* C8 as claimed: MEDIUM tier, no phrase, probe answers urgency high or
\* sentiment negative: escalate = true with reason "customer query shows
\* {sentiment} sentiment with {urgency} urgency".
C8_SentimentReasonLowerCase ==
    \A c \in Calls :
        (/\ Ended(c)
         /\ TierMedium(top_similarity[c])
         /\ query[c] \in QueriesWithoutPhrase
         /\ probe_reply[c].kind = "object"
         /\ (probe_reply[c].urgency = "high"
             \/ probe_reply[c].sentiment = "negative")) =>
            /\ result[c].outcome = "returned"
            /\ result[c].escalate
            /\ result[c].reason =
                 <<"customer", "query", "shows", probe_reply[c].sentiment,
                   "sentiment", "with", probe_reply[c].urgency, "urgency">>

\* C8 as amended: the same, with the reason as the code writes it,
\* "Customer query shows {sentiment} sentiment with {urgency} urgency".
C8_SentimentEscalates ==
    \A c \in Calls :
        (/\ Ended(c)
         /\ TierMedium(top_similarity[c])
         /\ query[c] \in QueriesWithoutPhrase
         /\ probe_reply[c].kind = "object"
         /\ (probe_reply[c].urgency = "high"
             \/ probe_reply[c].sentiment = "negative")) =>
            /\ result[c].outcome = "returned"
            /\ result[c].escalate
            /\ result[c].reason =
                 <<"Customer", "query", "shows", probe_reply[c].sentiment,
                   "sentiment", "with", probe_reply[c].urgency, "urgency">>

\* C8 witness: similarity 0.5, probe answered {urgency: high, sentiment:
\* neutral}, the call returned an escalation.
C8_Witness ==
    \E c \in Calls :
        /\ ReturnedDecision(c)
        /\ top_similarity[c] = 500000
        /\ query[c] = Q_NearMiss
        /\ probe_reply[c].kind = "object"
        /\ probe_reply[c].urgency = "high"
        /\ probe_reply[c].sentiment = "neutral"
        /\ result[c].escalate

\* C9: MEDIUM tier, no phrase, probe answers urgency other than high and
\* sentiment other than negative: escalate = false, confidence = medium.
C9_MediumCalmNotEscalated ==
    \A c \in Calls :
        (/\ Ended(c)
         /\ TierMedium(top_similarity[c])
         /\ query[c] \in QueriesWithoutPhrase
         /\ probe_reply[c].kind = "object"
         /\ probe_reply[c].urgency # "high"
         /\ probe_reply[c].sentiment # "negative") =>
            /\ result[c].outcome = "returned"
            /\ ~result[c].escalate
            /\ result[c].confidence = "medium"

\* C9 witness: similarity 0.5, probe answered {urgency: low, sentiment:
\* positive}, the call returned without escalation.
C9_Witness ==
    \E c \in Calls :
        /\ ReturnedDecision(c)
        /\ top_similarity[c] = 500000
        /\ query[c] = Q_Order
        /\ probe_reply[c].kind = "object"
        /\ probe_reply[c].urgency = "low"
        /\ probe_reply[c].sentiment = "positive"
        /\ ~result[c].escalate

\* C10: HIGH tier, no phrase: the call returns escalate = false whatever
\* the sentiment service would say about the query (any urgency, any
\* sentiment, a failure, no answer).
C10_HighTierIgnoresSentiment ==
    \A c \in Calls :
        (/\ pc[c] \in {"rules", "create", "sentiment", "done"}
         /\ TierHigh(top_similarity[c])
         /\ query[c] \in QueriesWithoutPhrase) =>
            /\ pc[c] \in {"rules", "done"}
            /\ Ended(c) =>
                  /\ result[c].outcome = "returned"
                  /\ ~result[c].escalate

\* C10 witness: a HIGH-tier call without a phrase returned escalate =
\* false for a query the service would call negative and urgent.
C10_Witness ==
    \E c \in Calls :
        /\ ReturnedDecision(c)
        /\ TierHigh(top_similarity[c])
        /\ query[c] = Q_Order
        /\ probe_reply[c].kind = "object"
        /\ probe_reply[c].urgency = "high"
        /\ probe_reply[c].sentiment = "negative"
        /\ ~result[c].escalate

\* C11: the tier boundaries are inclusive on the lower bound: 0.65 is
\* classified high, 0.649999 medium, 0.45 medium, 0.449999 low.
C11_BoundariesInclusive ==
    \A c \in Calls :
        pc[c] \notin {"idle", "classify"} =>
            /\ top_similarity[c] = 650000 => confidence[c] = "high"
            /\ top_similarity[c] = 649999 => confidence[c] = "medium"
            /\ top_similarity[c] = 450000 => confidence[c] = "medium"
            /\ top_similarity[c] = 449999 => confidence[c] = "low"

\* C11 witness: a call with top_similarity exactly 0.65 was classified
\* high.
C11_Witness ==
    \E c \in Calls :
        /\ pc[c] = "scan"
        /\ top_similarity[c] = 650000
        /\ confidence[c] = "high"

\* C13: a similarity outside [0,1] is not rejected: a score below 0 is
\* classified low and a score above 1 high, and the call ends by
\* returning a decision, not by raising.
C13_OutOfRangeNotRejected ==
    \A c \in Calls :
        /\ (pc[c] \notin {"idle", "classify"} /\ top_similarity[c] < 0) =>
              confidence[c] = "low"
        /\ (pc[c] \notin {"idle", "classify"}
            /\ top_similarity[c] > 1000000) =>
              confidence[c] = "high"
        /\ (Ended(c)
            /\ (top_similarity[c] < 0 \/ top_similarity[c] > 1000000)) =>
              /\ result[c].outcome = "returned"
              /\ result[c].confidence =
                   IF top_similarity[c] < 0 THEN "low" ELSE "high"

\* C13 witness: should_escalate returned a high-confidence decision for
\* the similarity 1.5.
C13_Witness ==
    \E c \in Calls :
        /\ ReturnedDecision(c)
        /\ top_similarity[c] = 1500000
        /\ result[c].confidence = "high"

TierRank(tier) ==
    CASE tier = "low" -> 1
      [] tier = "medium" -> 2
      [] tier = "high" -> 3

\* C12: determine_confidence is monotone: of two classified scores, the
\* smaller one never has the higher tier.
C12_Monotone ==
    \A c1, c2 \in Calls :
        (/\ pc[c1] = "scan"
         /\ pc[c2] = "scan"
         /\ top_similarity[c1] < top_similarity[c2]) =>
            TierRank(confidence[c1]) <= TierRank(confidence[c2])

\* C12 witness: 0.449999 and 0.45 were both classified, the first low and
\* the second medium.
C12_Witness ==
    \E c1, c2 \in Calls :
        /\ pc[c1] = "scan"
        /\ pc[c2] = "scan"
        /\ top_similarity[c1] = 449999
        /\ top_similarity[c2] = 450000
        /\ confidence[c1] = "low"
        /\ confidence[c2] = "medium"

\* How a call ends when it runs alone, by the specification's ordered
\* algorithm: the decision of the rule that matches first, or the
\* exception of a probe call that fails.
SoloOutcome(q, s, reply) ==
    LET tier == IF TierHigh(s) THEN "high"
                ELSE IF TierMedium(s) THEN "medium" ELSE "low"
        signal == ProbeSignal(reply)
        rule == FirstMatch(s, q, signal)
        probed == tier = "medium" /\ q \in QueriesWithoutPhrase
    IN  IF probed /\ reply.kind = "raises"
        THEN Raised("APIConnectionError")
        ELSE IF probed /\ reply.kind = "array"
        THEN Raised("AttributeError")
        ELSE CASE rule = "low" -> Returned(TRUE, LowReason, tier)
               [] rule = "explicit" -> Returned(TRUE, ExplicitReason, tier)
               [] rule = "sentiment" ->
                    Returned(TRUE,
                             <<"Customer", "query", "shows",
                               signal.sentiment, "sentiment", "with",
                               signal.urgency, "urgency">>, tier)
               [] OTHER ->
                    Returned(FALSE,
                             <<(IF tier = "medium" THEN "Medium"
                                ELSE "High"),
                               "confidence", "in", "automated",
                               "response">>, tier)

\* C16: two calls on the same engine with the same query, the same
\* top_similarity and the same probe behaviour end the same way, in
\* whatever order they and other calls ran: nothing an earlier call left
\* behind changes a later one.
C16_SameInputsSameDecision ==
    \A c1, c2 \in Calls :
        (/\ Ended(c1)
         /\ Ended(c2)
         /\ query[c1] = query[c2]
         /\ top_similarity[c1] = top_similarity[c2]
         /\ probe_reply[c1] = probe_reply[c2]) =>
            result[c1] = result[c2]

\* C16 witness: two calls with query "where is my order", similarity 0.5
\* and an alarming probe answer have both returned.
C16_Witness ==
    \E c1, c2 \in Calls :
        /\ c1 # c2
        /\ ReturnedDecision(c1)
        /\ ReturnedDecision(c2)
        /\ query[c1] = Q_Order
        /\ query[c2] = Q_Order
        /\ top_similarity[c1] = 500000
        /\ top_similarity[c2] = 500000
        /\ probe_reply[c1].urgency = "high"
        /\ probe_reply[c2].urgency = "high"
        /\ result[c1] = result[c2]
        /\ result[c1].escalate

\* C17: with the steps of concurrent calls interleaved in every way, each
\* call ends exactly as it would alone: its result is determined by its
\* own query, similarity and probe answer.
C17_NoInterference ==
    \A c \in Calls :
        Ended(c) =>
            result[c] = SoloOutcome(query[c], top_similarity[c],
                                    probe_reply[c])

\* C17 witness: a MEDIUM call was escalated on its own probe answer while
\* a call for another query with another similarity was in progress.
C17_Witness ==
    \E c1, c2 \in Calls :
        /\ c1 # c2
        /\ ReturnedDecision(c1)
        /\ query[c1] = Q_Order
        /\ top_similarity[c1] = 500000
        /\ RuleOf(result[c1]) = "sentiment"
        /\ pc[c2] = "rules"
        /\ query[c2] = Q_SpeakToHumanUpper
        /\ top_similarity[c2] = 800000

\* C18: generate_response copies the decision into the response
\* unchanged: confidence, should_escalate and reason of the response are
\* those of the decision, for every decision and every generated text.
C18_DecisionCopied ==
    \A c \in Calls :
        pc[c] = "responded" =>
            /\ response[c].returned
            /\ response[c].confidence = result[c].confidence
            /\ response[c].should_escalate = result[c].escalate
            /\ response[c].reason = result[c].reason

\* C18 witness: a response was returned for a HIGH-confidence decision
\* escalated on an explicit request.
C18_Witness ==
    \E c \in Calls :
        /\ pc[c] = "responded"
        /\ result[c].confidence = "high"
        /\ result[c].escalate
        /\ response[c].should_escalate
        /\ response[c].reason = ExplicitReason
        /\ response[c].response_text = "I'll connect you with a human agent."

\* C19: exactly one of the three prompt variants is selected: the
\* escalate path iff escalate is true, whatever the confidence; the high
\* path iff escalate is false and confidence is high; the medium path iff
\* escalate is false and confidence is medium.
C19_ThreeWayPrompt ==
    \A c \in Calls :
        pc[c] \in {"generate", "responded", "failed"} =>
            /\ system_prompt[c].variant \in {"escalate", "high", "medium"}
            /\ system_prompt[c].variant = "escalate" <=> result[c].escalate
            /\ system_prompt[c].variant = "high" <=>
                  (~result[c].escalate /\ result[c].confidence = "high")
            /\ system_prompt[c].variant = "medium" <=>
                  (~result[c].escalate /\ result[c].confidence = "medium")

\* C19 witness: the escalate path was selected for a decision of high
\* confidence.
C19_Witness ==
    \E c \in Calls :
        /\ pc[c] = "generate"
        /\ result[c].escalate
        /\ result[c].confidence = "high"
        /\ system_prompt[c].variant = "escalate"

\* C20: a decision, once returned by should_escalate, is not changed by
\* any step of generate_response, neither when it returns nor when the
\* generation call raises: it stays as it is until the frame that holds
\* it ends.
C20_DecisionNeverMutated ==
    [][\A c \in Calls :
         (result[c].outcome = "returned" /\ pc'[c] # "idle") =>
             result'[c] = result[c]]_vars

\* C20 witness: the generation call raised and the decision, a MEDIUM
\* decision escalated on sentiment, is still there as it was returned.
C20_Witness ==
    \E c \in Calls :
        /\ pc[c] = "failed"
        /\ top_similarity[c] = 500000
        /\ query[c] = Q_Order
        /\ result[c] = SoloOutcome(query[c], top_similarity[c],
                                   probe_reply[c])
        /\ RuleOf(result[c]) = "sentiment"

\* C27: the outcome of should_escalate does not depend on the argument
\* previous_escalations: whether it is None, an empty list or a list of
\* earlier decisions, the call ends as the query, the similarity and the
\* probe answer alone determine.
C27_PreviousEscalationsIgnored ==
    \A c \in Calls :
        Ended(c) =>
            \A p \in PreviousEscalations :
                previous_escalations[c] = p =>
                    result[c] = SoloOutcome(query[c], top_similarity[c],
                                            probe_reply[c])

\* C27 witness: a call given a list with an earlier escalation returned
\* the default decision.
C27_Witness ==
    \E c \in Calls :
        /\ ReturnedDecision(c)
        /\ previous_escalations[c].given
        /\ Len(previous_escalations[c].list) = 1
        /\ top_similarity[c] = 800000
        /\ query[c] = Q_Order
        /\ ~result[c].escalate

\* C28: in every branch the confidence field of the returned decision is
\* determine_confidence(top_similarity), one of low, medium, high; the
\* explicit-request and the sentiment rule do not alter the tier.
C28_ConfidenceIsTier ==
    \A c \in Calls :
        ReturnedDecision(c) =>
            /\ result[c].confidence =
                 determine_confidence(confidence_thresholds,
                                      top_similarity[c])
            /\ result[c].confidence \in {"low", "medium", "high"}
            /\ result[c].confidence = "low" <=> TierLow(top_similarity[c])
            /\ result[c].confidence = "high" <=> TierHigh(top_similarity[c])

\* C28 witness: an explicit request at MEDIUM was escalated and reported
\* with confidence medium.
C28_Witness ==
    \E c \in Calls :
        /\ ReturnedDecision(c)
        /\ top_similarity[c] = 500000
        /\ query[c] = Q_RealPerson
        /\ RuleOf(result[c]) = "explicit"
        /\ result[c].confidence = "medium"

\* ------------------------------------------- the interface and its retrieval

\* The three stages of a query, by the call that starts each.
Stages == <<"format_context_for_prompt", "should_escalate",
            "generate_response">>

IsPrefix(a, b) ==
    /\ Len(a) <= Len(b)
    /\ \A n \in 1..Len(a) : a[n] = b[n]

\* The calls to the retrieval engine, the triage engine and the response
\* generator among the calls made.
IsEngineCall(name) == name # "collection.get"

EngineCalls(log) == SelectSeq(log, IsEngineCall)

\* The vector database answered with no tickets.
EmptyAnswer(a) == a.kind = "returns" /\ Len(a.distances[1]) = 0

C22_EmptyRetrievalEscalates ==
    \A c \in Calls :
        (handler[c] # "none" /\ EmptyAnswer(store_answer[c])) =>
            /\ pc[c] = "failed" => Len(call_log[c]) = 3
            /\ pc[c] \notin {"create", "sentiment"}
            /\ retrieval_results[c].bound =>
                 /\ retrieval_results[c].top_similarity = 0
                 /\ retrieval_results[c].results = << >>
            /\ retrieval_result[c].bound =>
                 /\ retrieval_result[c].top_similarity = 0
                 /\ retrieval_result[c].ticket_ids = << >>
            /\ pc[c] \in {"done", "prompt", "generate", "responded",
                          "returned", "failed"} =>
                 /\ result[c].outcome = "returned"
                 /\ result[c].confidence = "low"
                 /\ result[c].escalate
            /\ final_response[c].returned =>
                 /\ final_response[c].confidence = "low"
                 /\ final_response[c].should_escalate
                 /\ final_response[c].similarity_score = 0
                 /\ final_response[c].relevant_ticket_ids = << >>

\* C22 witness: a query for which nothing was retrieved got its response.
C22_Witness ==
    \E c \in Calls :
        /\ EmptyAnswer(store_answer[c])
        /\ pc[c] = "returned"
        /\ final_response[c].should_escalate
        /\ final_response[c].confidence = "low"

\* C23: every result of retrieve_relevant_tickets is a sequence of records
\* whose similarity, 1 - distance, lies in [0, 1], in descending order of
\* similarity, and for a non-empty sequence top_similarity is the
\* similarity of the first record and so the largest.
C23_SimilaritiesInUnitInterval ==
    \A c \in Calls :
        retrieval_results[c].bound =>
            LET rs == retrieval_results[c].results IN
            /\ \A n \in 1..Len(rs) :
                 rs[n].similarity >= 0 /\ rs[n].similarity <= 1000000
            /\ \A n \in 1..(Len(rs) - 1) :
                 rs[n].similarity >= rs[n + 1].similarity
            /\ Len(rs) > 0 =>
                 /\ retrieval_results[c].top_similarity = rs[1].similarity
                 /\ \A n \in 1..Len(rs) :
                      rs[n].similarity <= retrieval_results[c].top_similarity

\* C29: in every response of the pipeline, should_escalate false comes
\* with confidence high or medium, and the final else branch of the prompt
\* selection is taken only with confidence medium and without escalation.
C29_NotEscalatedIsNotLow ==
    \A c \in Calls :
        handler[c] # "none" =>
            /\ (response[c].returned /\ ~response[c].should_escalate) =>
                 response[c].confidence \in {"high", "medium"}
            /\ (final_response[c].returned
                /\ ~final_response[c].should_escalate) =>
                 final_response[c].confidence \in {"high", "medium"}
            /\ system_prompt[c].variant = "medium" =>
                 /\ g_confidence[c] = "medium"
                 /\ ~g_escalate[c]

\* C29 witness: a MEDIUM query that was not escalated got its response
\* from the final else branch.
C29_Witness ==
    \E c \in Calls :
        /\ final_response[c].returned
        /\ ~final_response[c].should_escalate
        /\ final_response[c].confidence = "medium"
        /\ system_prompt[c].variant = "medium"

\* Two handlers ran on the same query, got the same answers of the vector
\* database and of the sentiment service and the same generated text, and
\* both have their response.
SameRun(c, d) ==
    /\ handler[c] = "process_query"
    /\ handler[d] = "run_app"
    /\ pc[c] = "returned"
    /\ pc[d] = "returned"
    /\ query[c] = query[d]
    /\ store_answer[c] = store_answer[d]
    /\ probe_reply[c] = probe_reply[d]
    /\ response[c].response_text = response[d].response_text

SameBatch(k1, k2) == (k1 - 1) \div batch_size = (k2 - 1) \div batch_size

\* C24: in add_tickets every prepared document goes into exactly one
\* batch add; when that add fails, every document of the batch is added
\* individually exactly once, and otherwise not at all; the following
\* batches are processed all the same: add_tickets returns only when
\* every document has been attempted.
C24_FailedBatchRetriedOnce ==
    /\ \A r \in Rows :
         /\ batch_adds[r] <= 1
         /\ single_adds[r] <= batch_adds[r]
         /\ r \in collection => batch_adds[r] = 1
    /\ add_pc = "returned" =>
         /\ \A k \in 1..Len(documents) :
              /\ batch_adds[documents[k]] = 1
              /\ documents[k] \notin collection =>
                   single_adds[documents[k]] = 1
         /\ \A k1, k2 \in 1..Len(documents) :
              SameBatch(k1, k2) =>
                  single_adds[documents[k1]] = single_adds[documents[k2]]

\* C24 witness: the first batch failed, one of its documents failed again
\* on its own and the other was accepted, and the next batch was accepted
\* as a whole.
C24_Witness ==
    /\ add_pc = "returned"
    /\ Len(documents) >= 3
    /\ single_adds[documents[1]] = 1
    /\ documents[1] \notin collection
    /\ documents[2] \in collection
    /\ single_adds[documents[3]] = 0
    /\ documents[3] \in collection

\* C25: add_tickets returns the number of tickets added, the number of
\* documents the collection accepted.
C25_ReturnsNumberAdded ==
    add_pc = "returned" => added = Cardinality(collection)

\* C26: the ids add_to_agent_queue generates are unique: no two pending
\* conversations have the same id, and no pending conversation has the id
\* of a conversation that was answered.
C26_IdsUnique ==
    /\ \A m, n \in 1..Len(pending_conversations) :
         m # n =>
             pending_conversations[m].id # pending_conversations[n].id
    /\ \A n \in 1..Len(pending_conversations) :
         pending_conversations[n].id \notin agent_responses

====
